---- MODULE Spec2Model ----
(***************************************************************************)
(* Bayesian optimization session of horovod/common/optim/                  *)
(* bayesian_optimization.cc: the sample store, the surrogate refit, the    *)
(* Expected Improvement acquisition function, the bounds check and the     *)
(* multi-restart proposer.                                                 *)
(*                                                                         *)
(* Numbers.  A double is modelled by an integer on a grid; NaN is the one  *)
(* non-number and is the code NaN below; std::numeric_limits<double>::max  *)
(* is DBL_MAX, larger than every objective value the model can produce.    *)
(* Expected Improvement is computed in hundredths (the normal cdf and pdf  *)
(* are tabulated in percent on z rounded to the nearest integer).          *)
(***************************************************************************)
EXTENDS Integers, Sequences, FiniteSets, TLC

\* ------------------------------------------------------------------ bounds
\* Largest number of samples AddSample is exercised with.
MaxSamples == 2
\* n_restarts of ProposeLocation (its default, 25, is set in the header).
NRestarts == 2
\* Number of states of the random source gen_ (std::mt19937 in the code).
RngPeriod == 4
MaxRunSamples == 1
\* The largest bound of an interval CheckBounds is applied to.
MaxCoord == 2
\* The largest number of dimensions CheckBounds is applied to.
MaxDim == 2
\* The largest number of query points ExpectedImprovement is applied to.
MaxRows == 2

\* -------------------------------------------------------- program constants
\* std::numeric_limits<double>::max(): the penalty and the initial fx_min.
DBL_MAX == 1000000
\* The code of the IEEE not-a-number (0/0 in z = imp / sigma).
NaN == -1000000
\* param.max_iterations of the local optimizer.
max_iterations == 100

\* ------------------------------------------------------------- arithmetic
IsNaN(a) == a = NaN

Add(a, b) == IF IsNaN(a) \/ IsNaN(b) THEN NaN ELSE a + b

Sub(a, b) == IF IsNaN(a) \/ IsNaN(b) THEN NaN ELSE a - b

Mul(a, b) == IF IsNaN(a) \/ IsNaN(b) THEN NaN ELSE a * b

Neg(a) == IF IsNaN(a) THEN NaN ELSE 0 - a

\* IEEE a < b: false as soon as one side is NaN.
Lt(a, b) == ~IsNaN(a) /\ ~IsNaN(b) /\ a < b

Abs(a) == IF a < 0 THEN 0 - a ELSE a

Zero(d) == [j \in 1..d |-> 0]

\* z = imp / sigma (line 146) on the grid of the tables: a finite quotient is
\* rounded to the nearest integer and clipped to [-3, 3]; x/0 is +-inf, 0/0
\* and NaN/x are NaN.
Quotient(imp, sigma) ==
    IF IsNaN(imp) THEN [k |-> "nan", v |-> 0]
    ELSE IF sigma = 0
         THEN IF imp > 0 THEN [k |-> "inf", v |-> 1]
              ELSE IF imp < 0 THEN [k |-> "inf", v |-> -1]
              ELSE [k |-> "nan", v |-> 0]
    ELSE LET r == (2 * imp + sigma) \div (2 * sigma)
         IN  [k |-> "fin", v |-> IF r > 3 THEN 3 ELSE IF r < -3 THEN -3 ELSE r]

\* The standard normal density exp(-z*z/2)/sqrt(2 pi), in percent.
pdf(z) ==
    IF z.k = "nan" THEN NaN
    ELSE IF z.k = "inf" THEN 0
    ELSE <<0, 5, 24, 40, 24, 5, 0>>[z.v + 4]

\* The standard normal cdf 0.5 * erfc(-z / sqrt 2), in percent.
cdf(z) ==
    IF z.k = "nan" THEN NaN
    ELSE IF z.k = "inf" THEN (IF z.v > 0 THEN 100 ELSE 0)
    ELSE <<0, 2, 16, 50, 84, 98, 100>>[z.v + 4]

\* ------------------------------------------------- the surrogate (external)
\* GaussianProcessRegressor(alpha): nothing fitted yet.
GaussianProcessRegressor(alpha) ==
    [alpha |-> alpha, x_train |-> <<>>, y_train |-> <<>>, fitted |-> FALSE]

\* Fit(X, y): refits in place; the fitted state is the data and alpha alone.
Fit(gpr, x_sample, y_sample) ==
    [gpr EXCEPT !.x_train = x_sample, !.y_train = y_sample, !.fitted = TRUE]

\* The L1 distance of two points of the same length.
RECURSIVE Distance(_, _)
Distance(p, q) ==
    IF Len(p) = 0 \/ Len(q) = 0 THEN 0
    ELSE Abs(Head(p) - Head(q)) + Distance(Tail(p), Tail(q))

\* The distance from q to the nearest fitted input.
Nearest(gpr, q) ==
    LET ds == {Distance(gpr.x_train[i], q) : i \in 1..Len(gpr.x_train)}
    IN  CHOOSE m \in ds : \A e \in ds : m <= e

\* Predictive mean at q: the prior mean 0 on no data, else the largest
\* output among the fitted inputs nearest to q.
PredictMean(gpr, q) ==
    IF Len(gpr.x_train) = 0 THEN 0
    ELSE LET ys == UNION { {gpr.y_train[i][1] :
                               i \in {k \in 1..Len(gpr.x_train) :
                                         Distance(gpr.x_train[k], q) = dm}}
                           : dm \in {Nearest(gpr, q)} }
         IN  CHOOSE m \in ys : \A e \in ys : e <= m

\* Predictive stddev at q: the prior 1 on no data, else the distance to the
\* nearest fitted input plus the noise alpha; 0 exactly at a fitted input of
\* a noise-free model.
PredictStd(gpr, q) ==
    IF Len(gpr.x_train) = 0 THEN 1 ELSE Nearest(gpr, q) + gpr.alpha

\* Predict(X, mu): the means over the rows of X.
RECURSIVE PredictMu(_, _)
PredictMu(gpr, X) ==
    IF Len(X) = 0 THEN <<>>
    ELSE <<PredictMean(gpr, Head(X))>> \o PredictMu(gpr, Tail(X))

\* Predict(X, mu, &sigma): the stddevs over the rows of X.
RECURSIVE PredictSigma(_, _)
PredictSigma(gpr, X) ==
    IF Len(X) = 0 THEN <<>>
    ELSE <<PredictStd(gpr, Head(X))>> \o PredictSigma(gpr, Tail(X))

\* ------------------------------------------------------------- CheckBounds
\* The loop of CheckBounds from coordinate i on: false at the first
\* coordinate outside its interval, true when none is left.
\* The loop with the endpoints of each interval excluded.
RECURSIVE CheckBoundsStrict(_, _, _)
CheckBoundsStrict(bounds, x, i) ==
    IF i > Len(x) THEN TRUE
    ELSE IF x[i] <= bounds[i].first \/ x[i] >= bounds[i].second THEN FALSE
    ELSE CheckBoundsStrict(bounds, x, i + 1)

RECURSIVE CheckBoundsFrom(_, _, _)
CheckBoundsFrom(bounds, x, i) ==
    IF i > Len(x) THEN TRUE
    ELSE IF x[i] < bounds[i].first \/ x[i] > bounds[i].second THEN FALSE
    ELSE CheckBoundsFrom(bounds, x, i + 1)

CheckBounds(bounds, x) == CheckBoundsFrom(bounds, x, 1)

\* ----------------------------------------------------- ExpectedImprovement
\* mu_sample.maxCoeff(): the largest coefficient.  On an empty vector the
\* call is undefined (Eigen asserts in a debug build and reads no valid
\* coefficient otherwise): the value is then ub, chosen by the caller.
maxCoeff(v, ub) ==
    IF Len(v) = 0 THEN ub
    ELSE CHOOSE m \in {v[i] : i \in 1..Len(v)} : \A i \in 1..Len(v) : v[i] <= m

\* imp = mu.array() - mu_sample_opt - xi_, at one coefficient.
Improvement(mu, mu_sample_opt, xi) == Sub(Sub(mu, mu_sample_opt), xi)

\* imp.cwiseProduct(z.unaryExpr(cdf)) + sigma.cwiseProduct(z.unaryExpr(pdf))
\* with z = imp.array() / sigma.array(), at one coefficient.
RawImprovement(imp, sigma) ==
    Add(Mul(imp, cdf(Quotient(imp, sigma))), Mul(sigma, pdf(Quotient(imp, sigma))))

\* (sigma.array() != 0).select(ei, 0.0), at one coefficient.
\* ei kept at every coefficient.
SelectAll(sigma, ei) == ei

Select(sigma, ei) == IF sigma # 0 THEN ei ELSE 0

\* The coefficients of ei from those of mu and sigma.
RECURSIVE Coefficients(_, _, _, _)
Coefficients(mu, sigma, mu_sample_opt, xi) ==
    IF Len(mu) = 0 THEN <<>>
    ELSE <<Select(Head(sigma),
                  RawImprovement(Improvement(Head(mu), mu_sample_opt, xi),
                                 Head(sigma)))>>
         \o Coefficients(Tail(mu), Tail(sigma), mu_sample_opt, xi)

ExpectedImprovement(gpr, xi, x, x_sample, ub) ==
    CHOOSE ei \in
        { Coefficients(mu, sigma, mu_sample_opt, xi)
          : mu \in {PredictMu(gpr, x)},
            sigma \in {PredictSigma(gpr, x)},
            mu_sample_opt \in {maxCoeff(PredictMu(gpr, x_sample), ub)} } : TRUE

\* ------------------------------------------------- the objective callbacks
\* c is what the lambdas capture: [bounds, xi, gpr, x_sample, ub].
\* f: the negative acquisition function at x.
f(c, x) == Neg(ExpectedImprovement(c.gpr, c.xi, <<x>>, c.x_sample, c.ub)[1])

\* min_obj: f inside the bounds, the largest double outside.
min_obj(c, x) == IF CheckBounds(c.bounds, x) THEN f(c, x) ELSE DBL_MAX

\* The points a search started inside the bounds can visit: every
\* coordinate within its interval or one step outside it.
RECURSIVE Grid(_)
Grid(bounds) ==
    IF Len(bounds) = 0 THEN {<<>>}
    ELSE {<<v>> \o p : v \in (Head(bounds).first - 1)..(Head(bounds).second + 1),
                       p \in Grid(Tail(bounds))}

\* min_obj as the optimizer sees it: its graph over the grid, each point
\* evaluated once.
Objective(c) ==
    UNION { {<<p, min_obj(cv, p)>> : p \in Grid(cv.bounds)} : cv \in {c} }

\* The value of the tabulated objective at p.
ValueAt(obj, p) == (CHOOSE q \in obj : q[1] = p)[2]

\* --------------------------------------- the local optimizer (external)
\* solver.minimize(min_obj, x, fx) returns a final point and a final value.
\* Four deterministic behaviours of a bound-agnostic optimizer:
\*   stay       the start point is stationary: (x0, min_obj(x0));
\*   descend    steps to the best strictly better neighbour until none is;
\*   overshoot  the line search walks along the first axis and ends on the
\*              first penalised trial point: (x, DBL_MAX), x infeasible;
\*   stale      ends on that infeasible iterate but reports the value of
\*              the last point it accepted, min_obj(x0).
Solvers == {"stay", "descend", "overshoot", "stale"}

\* The tabulated points one step from x along one axis.
Neighbours(obj, x) ==
    {q \in obj : \E j \in 1..Len(x), s \in {-1, 1} :
                     q[1] = [x EXCEPT ![j] = x[j] + s]}

\* One step of the descent: the best strictly better neighbour of x, or x
\* itself when no neighbour is strictly better.
Step(obj, x) ==
    LET better == {q \in Neighbours(obj, x) : Lt(q[2], ValueAt(obj, x))}
    IN  IF better = {} THEN x
        ELSE (CHOOSE q \in better : \A m \in better : q[2] <= m[2])[1]

\* At most k steps from x.  (xv \in {x} evaluates the iterate once.)
RECURSIVE Descend(_, _, _)
Descend(obj, x, k) ==
    CHOOSE r \in { IF k = 0 THEN xv
                   ELSE IF nv = xv THEN xv ELSE Descend(obj, nv, k - 1)
                   : xv \in {x}, nv \in {Step(obj, x)} } : TRUE

\* Along the first axis from x until the objective is the penalty, at most
\* k trial points.
RECURSIVE Overshoot(_, _, _)
Overshoot(obj, x, k) ==
    CHOOSE r \in { IF k = 0 \/ ValueAt(obj, xv) = DBL_MAX THEN xv
                   ELSE Overshoot(obj, [xv EXCEPT ![1] = xv[1] + 1], k - 1)
                   : xv \in {x} } : TRUE

minimize(solver, obj, x0) ==
    CASE solver = "stay" ->
            [x |-> x0, fx |-> ValueAt(obj, x0)]
      [] solver = "descend" ->
            LET x == Descend(obj, x0, max_iterations)
            IN  [x |-> x, fx |-> ValueAt(obj, x)]
      [] solver = "overshoot" ->
            LET x == Overshoot(obj, x0, max_iterations)
            IN  [x |-> x, fx |-> ValueAt(obj, x)]
      [] solver = "stale" ->
            [x |-> Overshoot(obj, x0, max_iterations), fx |-> ValueAt(obj, x0)]

\* ------------------------------------------------------- the random source
\* The output of the engine in state g.
Engine(g) == (2 * g + 1) % (RngPeriod + 1)

\* The state after one draw.
Advance(g) == (g + 1) % RngPeriod

\* dists_[j](gen_) in engine state g: uniform over [a, b), a itself when
\* the interval is a point.
Draw(dist, g) ==
    IF dist.b > dist.a THEN dist.a + (Engine(g) % (dist.b - dist.a))
    ELSE dist.a

\* GetDistributions(bounds): one uniform_real_distribution per bound.
GetDistributions(bounds) ==
    [j \in 1..Len(bounds) |-> [a |-> bounds[j].first, b |-> bounds[j].second]]

\* --------------------------------------------------------- ProposeLocation
\* The start point of a restart: x[j] = dists_[j](gen_) for j = 0 .. d-1,
\* drawn in this order from engine state g.
RECURSIVE StartPoint(_, _, _)
StartPoint(dists, g, j) ==
    IF j > Len(dists) THEN <<>>
    ELSE <<Draw(dists[j], g)>> \o StartPoint(dists, Advance(g), j + 1)

RECURSIVE AdvanceBy(_, _)
AdvanceBy(g, n) == IF n = 0 THEN g ELSE AdvanceBy(Advance(g), n - 1)

\* if (fx < fx_min)
\* fx <= fx_min in place of fx < fx_min.
ImprovesOrTies(fx, fx_min) == ~IsNaN(fx) /\ ~IsNaN(fx_min) /\ fx <= fx_min

Improves(fx, fx_min) == Lt(fx, fx_min)

\* The loop state is st = [gen, fx_min, x_next, log]; log keeps, per
\* restart, the engine state it started in, its start point, what the
\* optimizer returned and the running best after it.
\* One iteration of the loop on st = [gen, fx_min, x_next, log].
Restart(st, dists, obj, solver) ==
    LET x0  == StartPoint(dists, st.gen, 1)
        r   == minimize(solver, obj, x0)
        up  == Improves(r.fx, st.fx_min)
        fxm == IF up THEN r.fx ELSE st.fx_min
        xn  == IF up THEN r.x ELSE st.x_next
    IN  [gen    |-> AdvanceBy(st.gen, Len(dists)),
         fx_min |-> fxm,
         x_next |-> xn,
         log    |-> Append(st.log,
                       [gen |-> st.gen, x0 |-> x0, x |-> r.x, fx |-> r.fx,
                        fx_min |-> fxm, x_next |-> xn])]

\* for (int i = 0; i < n_restarts; i++), from iteration i on.
\* (sv \in {st} evaluates the loop state once.)
RECURSIVE RestartLoop(_, _, _, _, _, _)
RestartLoop(st, dists, obj, solver, i, n_restarts) ==
    CHOOSE r \in { IF i > n_restarts THEN sv
                   ELSE RestartLoop(Restart(sv, dists, obj, solver), dists, obj,
                                    solver, i + 1, n_restarts)
                   : sv \in {st} } : TRUE

\* s is the session [d, bounds, xi, dists, gpr, gen].  The result is the
\* final [gen, fx_min, x_next, log]; x_next is what is returned.
ProposeLocation(s, x_sample, y_sample, n_restarts, solver, ub) ==
    CHOOSE r \in
        { RestartLoop([gen |-> sv.gen, fx_min |-> DBL_MAX,
                       x_next |-> Zero(sv.d), log |-> <<>>],
                      sv.dists, obj, solver, 1, n_restarts)
          : sv \in {s},
            obj \in {Objective([bounds |-> s.bounds, xi |-> s.xi, gpr |-> s.gpr,
                                x_sample |-> x_sample, ub |-> ub])} } : TRUE

\* -------------------------------------------------------------- NextSample
\* The n x d (or n x 1) matrix whose row i is samples[i].
\* The rows filled by a loop that stops one short.
RowsButLast(samples) == [i \in 1..(Len(samples) - 1) |-> samples[i]]

Rows(samples) == [i \in 1..Len(samples) |-> samples[i]]

\* The whole of NextSample on session s with store (xs, ys): the refitted
\* surrogate and the proposer's result.
NextSampleOn(s, xs, ys, solver, ub) ==
    CHOOSE out \in
        { [gpr |-> gpr, gen |-> r.gen, x_next |-> r.x_next, log |-> r.log]
          : gpr \in {Fit(s.gpr, Rows(xs), Rows(ys))},
            r \in {ProposeLocation([s EXCEPT !.gpr = Fit(s.gpr, Rows(xs), Rows(ys))],
                                   Rows(xs), Rows(ys), NRestarts, solver, ub)} }
        : TRUE

\* =================================================================== state
VARIABLES
    d_,          \* the dimensionality
    bounds_,     \* one (first, second) pair per dimension
    xi_,         \* the exploration parameter
    dists_,      \* one uniform distribution per dimension
    gpr_,        \* the surrogate
    gen_,        \* the random source
    x_samples_,  \* the stored inputs
    y_samples_,  \* the stored outputs
    solver,      \* the behaviour of the external local optimizer
    last,        \* the most recent call: its operation, arguments and outcome
    restarts,    \* the restart log of the most recent ProposeLocation
    fitted,      \* the store as it was when NextSample was last called
    added,       \* the pairs passed to AddSample since construction or Clear
    phase,       \* "new"; "cleared" by Clear; "proposed" by the first
                 \* NextSample after a Clear and "used" by any other; for
                 \* good "undefined" once NextSample ran on an empty store
    seed0,       \* the state of the random source at construction
    memo,        \* the first NextSample call observed: its inputs and result
    pure         \* the last application of a pure function to drawn inputs

vars == <<d_, bounds_, xi_, dists_, gpr_, gen_, x_samples_, y_samples_, solver,
          last, restarts, fitted, added, phase, seed0, memo, pure>>

config == <<d_, bounds_, xi_, dists_, solver, seed0>>

This ==
    [d |-> d_, bounds |-> bounds_, xi |-> xi_, dists |-> dists_,
     gpr |-> gpr_, gen |-> gen_]

\* ------------------------------------------------------------------ inputs
\* The sessions constructed: two 1-D domains (one holds the origin, one
\* does not) and a 2-D domain.
BoundsSet ==
    { <<[first |-> 0, second |-> 2]>>,
      <<[first |-> 1, second |-> 3]>>,
      <<[first |-> 0, second |-> 2], [first |-> 1, second |-> 3]>> }

\* (alpha, xi): a noise-free model with exploration, a noisy one without.
Params == {[alpha |-> 0, xi |-> 1], [alpha |-> 1, xi |-> 0]}

Seeds == {0, 1}

\* The samples AddSample is called with: output 0 at the low corner of the
\* domain and output 2 at its high corner.
Samples(bounds) ==
    { [x |-> [j \in 1..Len(bounds) |-> bounds[j].first], y |-> 0],
      [x |-> [j \in 1..Len(bounds) |-> bounds[j].second], y |-> 2] }

\* What the undefined maxCoeff of an empty vector can yield as a value.
Garbage == {NaN, 0, 3}

NoCall == [op |-> "none", gen |-> 0, kind |-> "void", val |-> <<>>]

NoStore == [x |-> <<>>, y |-> <<>>]

NoMemo ==
    [set |-> FALSE, x |-> <<>>, y |-> <<>>, gen |-> 0, val |-> <<>>,
     again |-> FALSE]

NoPure == [fn |-> "none"]

\* ------------------------------------------------------------- construction
\* BayesianOptimization(bounds, alpha, xi): the member initialisers.
Construct(bounds, alpha, xi, seed) ==
    /\ d_ = Len(bounds)
    /\ bounds_ = bounds
    /\ xi_ = xi
    /\ dists_ = GetDistributions(bounds)
    /\ gpr_ = GaussianProcessRegressor(alpha)
    /\ gen_ = seed
    /\ x_samples_ = <<>>
    /\ y_samples_ = <<>>

Init ==
    /\ \E bounds \in BoundsSet, p \in Params, seed \in Seeds :
          /\ Construct(bounds, p.alpha, p.xi, seed)
          /\ seed0 = seed
    /\ solver \in Solvers
    /\ last = NoCall
    /\ restarts = <<>>
    /\ fitted = NoStore
    /\ added = <<>>
    /\ phase = "new"
    /\ memo = NoMemo
    /\ pure = NoPure

\* The phase a NextSample call on store xs leaves the session in.
AfterNextSample(ph, xs) ==
    IF ph = "undefined" \/ xs = <<>> THEN "undefined"
    ELSE IF ph = "cleared" THEN "proposed"
    ELSE "used"

\* The process is gone once a call has aborted.
Alive == last.kind # "abort"

\* ---------------------------------------------------------------- AddSample
\* x_samples_.push_back(x) and y_samples_.push_back(y)
\* Insertion at the front.
push_front(samples, v) == <<v>> \o samples

push_back(samples, v) == Append(samples, v)

\* AddSample(x, const VectorXd& y)
AddSampleVector(x, y) ==
    /\ Alive
    /\ Len(x_samples_) < MaxSamples
    /\ x_samples_' = push_back(x_samples_, x)
    /\ y_samples_' = push_back(y_samples_, y)
    /\ last' = [NoCall EXCEPT !.op = "AddSample"]
    /\ restarts' = <<>>
    /\ added' = Append(added, [x |-> x, y |-> y])
    /\ UNCHANGED <<config, gpr_, gen_, fitted, phase, memo, pure>>

\* AddSample(x, double y): y_v << y, then the vector overload.
AddSampleScalar(x, y) == AddSampleVector(x, <<y>>)

\* -------------------------------------------------------------------- Clear
\* Clear without y_samples_.clear().
ClearInputsOnly ==
    /\ Alive
    /\ x_samples_' = <<>>
    /\ last' = [NoCall EXCEPT !.op = "Clear"]
    /\ restarts' = <<>>
    /\ added' = <<>>
    /\ phase' = IF phase = "undefined" THEN phase ELSE "cleared"
    /\ UNCHANGED <<config, gpr_, gen_, y_samples_, fitted, memo, pure>>

Clear ==
    /\ Alive
    /\ x_samples_' = <<>>
    /\ y_samples_' = <<>>
    /\ last' = [NoCall EXCEPT !.op = "Clear"]
    /\ restarts' = <<>>
    /\ added' = <<>>
    /\ phase' = IF phase = "undefined" THEN phase ELSE "cleared"
    /\ UNCHANGED <<config, gpr_, gen_, fitted, memo, pure>>

\* --------------------------------------------------------------- NextSample
\* With an empty store the first evaluation of the objective is undefined
\* (maxCoeff of an empty vector): the call aborts, or goes on with a value.
\* NextSample proposing from the surrogate as it is and fitting afterwards.
ProposeBeforeFit(ub) ==
    \E r \in {ProposeLocation(This, Rows(x_samples_), Rows(y_samples_),
                              NRestarts, solver, ub)} :
        /\ gpr_' = Fit(gpr_, Rows(x_samples_), Rows(y_samples_))
        /\ fitted' = [x |-> x_samples_, y |-> y_samples_]
        /\ gen_' = r.gen
        /\ last' = [NoCall EXCEPT !.op = "NextSample", !.gen = gen_,
                                  !.kind = "vector", !.val = r.x_next]
        /\ restarts' = r.log
        /\ phase' = AfterNextSample(phase, x_samples_)
        /\ UNCHANGED <<config, x_samples_, y_samples_, added, pure>>

NextSampleCall(ub) ==
    \E r \in {NextSampleOn(This, x_samples_, y_samples_, solver, ub)},
       abort \in (IF x_samples_ = <<>> THEN BOOLEAN ELSE {FALSE}) :
        /\ gpr_' = r.gpr
        /\ fitted' = [x |-> x_samples_, y |-> y_samples_]
        /\ IF abort
           THEN /\ gen_' = AdvanceBy(gen_, d_)
                /\ last' = [NoCall EXCEPT !.op = "NextSample", !.gen = gen_,
                                          !.kind = "abort"]
                /\ restarts' = <<>>
           ELSE /\ gen_' = r.gen
                /\ last' = [NoCall EXCEPT !.op = "NextSample", !.gen = gen_,
                                          !.kind = "vector", !.val = r.x_next]
                /\ restarts' = r.log
        /\ phase' = AfterNextSample(phase, x_samples_)
        /\ UNCHANGED <<config, x_samples_, y_samples_, added, pure>>

NextSample ==
    /\ Alive
    /\ \E ub \in (IF x_samples_ = <<>> THEN Garbage ELSE {0}) :
            NextSampleCall(ub)
    /\ UNCHANGED memo

\* ------------------------------------------------------------ observed runs
\* NextSample with its first call on a non-empty store recorded: the store,
\* the state of the random source it started in, and what it returned;
\* memo.again tells that a later call started from the same inputs.
NextSampleObserved ==
    /\ Alive
    /\ \E ub \in (IF x_samples_ = <<>> THEN Garbage ELSE {0}) :
            NextSampleCall(ub)
    /\ memo' = IF ~memo.set /\ x_samples_ # <<>>
               THEN [set |-> TRUE, x |-> x_samples_, y |-> y_samples_,
                     gen |-> gen_, val |-> last'.val, again |-> FALSE]
               ELSE IF /\ memo.set
                       /\ x_samples_ = memo.x
                       /\ y_samples_ = memo.y
                       /\ gen_ = memo.gen
                    THEN [memo EXCEPT !.again = TRUE]
                    ELSE memo

\* The random source is put back to the state it had before the recorded
\* call (the reseed of a reproducible run).
Reseed ==
    /\ Alive
    /\ memo.set
    /\ gen_ # memo.gen
    /\ gen_' = memo.gen
    /\ UNCHANGED <<config, gpr_, x_samples_, y_samples_, last, restarts,
                   fitted, added, phase, memo, pure>>

\* ------------------------------------------------------------ specification
Next ==
    \/ \E s \in Samples(bounds_) : AddSampleScalar(s.x, s.y)
    \/ \E s \in Samples(bounds_) : AddSampleVector(s.x, <<s.y>>)
    \/ NextSample
    \/ Clear

Spec == Init /\ [][Next]_vars

\* ------------------------------------------------------ the pure functions
\* CheckBounds and ExpectedImprovement applied to drawn arguments: Init draws
\* the arguments into pure, the action applies the function.
Intervals ==
    {[first |-> lo, second |-> hi] : lo \in {0, MaxCoord}, hi \in {0, MaxCoord}}

CheckBoundsInputs ==
    UNION { { [fn |-> "CheckBounds", bounds |-> b, x |-> x, done |-> FALSE,
               out |-> FALSE]
              : b \in [1..k -> Intervals], x \in [1..k -> -1..(MaxCoord + 1)] }
            : k \in 1..MaxDim }

\* The surrogates fitted on up to MaxSamples 1-D samples.
FittedOn ==
    UNION { { Fit(GaussianProcessRegressor(alpha), X, Y)
              : alpha \in {0, 1},
                X \in [1..n -> {<<0>>, <<MaxCoord>>}],
                Y \in [1..n -> {<<0>>, <<2>>}] }
            : n \in 1..MaxSamples }

ExpectedImprovementInputs ==
    { [fn |-> "ExpectedImprovement", gpr |-> gpr, xi |-> xi, x |-> x,
       x_sample |-> <<xs>>, done |-> FALSE, out |-> <<>>]
      : gpr \in FittedOn, xi \in {0, 1},
        x \in UNION {[1..m -> {<<q>> : q \in 0..MaxCoord}] : m \in 1..MaxRows},
        xs \in {<<0>>, <<MaxCoord>>} }

InitPure ==
    /\ Construct(<<[first |-> 0, second |-> MaxCoord]>>, 0, 1, 0)
    /\ seed0 = 0
    /\ solver = "descend"
    /\ last = NoCall
    /\ restarts = <<>>
    /\ fitted = NoStore
    /\ added = <<>>
    /\ phase = "new"
    /\ memo = NoMemo
    /\ pure \in CheckBoundsInputs \cup ExpectedImprovementInputs

ApplyCheckBounds ==
    /\ pure.fn = "CheckBounds"
    /\ ~pure.done
    /\ pure' = [pure EXCEPT !.done = TRUE, !.out = CheckBounds(pure.bounds, pure.x)]
    /\ UNCHANGED <<config, gpr_, gen_, x_samples_, y_samples_, last, restarts,
                   fitted, added, phase, memo>>

ApplyExpectedImprovement ==
    /\ pure.fn = "ExpectedImprovement"
    /\ ~pure.done
    /\ pure' = [pure EXCEPT !.done = TRUE,
                            !.out = ExpectedImprovement(pure.gpr, pure.xi, pure.x,
                                                        pure.x_sample, 0)]
    /\ UNCHANGED <<config, gpr_, gen_, x_samples_, y_samples_, last, restarts,
                   fitted, added, phase, memo>>

NextPure == ApplyCheckBounds \/ ApplyExpectedImprovement

SpecPure == InitPure /\ [][NextPure]_vars

\* Reproducible runs on the 1-D domains from seed 0: the first call is
\* recorded and the random source can be reseeded.
InitRuns ==
    /\ Init
    /\ seed0 = 0
    /\ d_ = 1

NextRuns ==
    \/ \E s \in Samples(bounds_) :
            Len(x_samples_) < MaxRunSamples /\ AddSampleScalar(s.x, s.y)
    \/ NextSampleObserved
    \/ Clear
    \/ Reseed

SpecRuns == InitRuns /\ [][NextRuns]_vars

\* ================================================================== claims
\* The most recent call was a NextSample that returned a vector.
Returned == last.op = "NextSample" /\ last.kind = "vector"

\* A session as freshly constructed with this session's bounds, alpha and
\* xi, its random source in state g.
FreshSession(g) ==
    [d |-> Len(bounds_), bounds |-> bounds_, xi |-> xi_,
     dists |-> GetDistributions(bounds_),
     gpr |-> GaussianProcessRegressor(gpr_.alpha), gen |-> g]

\* C1: the vector NextSample returns on a non-empty store has every
\* coordinate i within [low_i, high_i].
C1_NextSampleWithinBounds ==
    (Returned /\ fitted.x # <<>>) =>
        /\ Len(last.val) = d_
        /\ \A i \in 1..d_ :
              bounds_[i].first <= last.val[i] /\ last.val[i] <= bounds_[i].second

\* C2: the first NextSample after a Clear, on the samples S added since,
\* returns the proposal, and leaves the store, the surrogate and the random
\* source, that a freshly constructed session reaches by adding S and
\* calling NextSample.
C2_ClearGivesFreshSession ==
    (Returned /\ phase = "proposed" /\ x_samples_ # <<>>) =>
        \A r \in {NextSampleOn(FreshSession(seed0), x_samples_, y_samples_,
                               solver, 0)} :
            /\ last.val = r.x_next
            /\ gpr_ = r.gpr
            /\ gen_ = r.gen

\* C3: a NextSample call that starts from the store and the random-source
\* state of the recorded first call returns the proposal of that call.
C3_SameInputsSameProposal ==
    (/\ Returned
     /\ memo.set
     /\ last.gen = memo.gen
     /\ fitted.x = memo.x
     /\ fitted.y = memo.y) => last.val = memo.val

\* A second run from the recorded inputs has returned, after a Clear and
\* the samples being added again.
C3_SecondRunReached ==
    /\ Returned
    /\ memo.again
    /\ phase = "proposed"
    /\ last.gen = memo.gen
    /\ fitted.x = memo.x
    /\ fitted.y = memo.y
    /\ gpr_.fitted

\* C4: a NextSample call on an empty store ends in an explicit error: no
\* vector is returned and the surrogate is not fitted on zero rows.
C4_EmptyStoreRejected ==
    (last.op = "NextSample" /\ fitted.x = <<>>) =>
        /\ last.kind = "error"
        /\ gpr_.x_train # <<>> \/ ~gpr_.fitted

\* C5: the store is the pairs passed to AddSample since the last Clear, in
\* call order, inputs and outputs of equal length; an AddSample step appends
\* exactly its pair (the scalar overload the one-element vector <<y>>) and
\* keeps every earlier pair in place; a NextSample step leaves the store as
\* it is.
C5_StoreAppendOnly ==
    /\ [](/\ Len(x_samples_) = Len(y_samples_)
          /\ Len(x_samples_) = Len(added)
          /\ \A i \in 1..Len(added) :
                x_samples_[i] = added[i].x /\ y_samples_[i] = added[i].y)
    /\ [][/\ last'.op = "NextSample" =>
                x_samples_' = x_samples_ /\ y_samples_' = y_samples_
          /\ \A s \in Samples(bounds_) :
                AddSampleScalar(s.x, s.y) =>
                    /\ Len(x_samples_') = Len(x_samples_) + 1
                    /\ x_samples_'[Len(x_samples_')] = s.x
                    /\ y_samples_'[Len(y_samples_')] = <<s.y>>
                    /\ SubSeq(x_samples_', 1, Len(x_samples_)) = x_samples_
                    /\ SubSeq(y_samples_', 1, Len(y_samples_)) = y_samples_
         ]_vars

\* NextSample has returned on a store of two different pairs.
C5_TwoPairsKept ==
    /\ Returned
    /\ Len(x_samples_) = 2
    /\ x_samples_[1] # x_samples_[2]
    /\ y_samples_[1] # y_samples_[2]

\* C6: after Clear the store is empty, inputs and outputs; d, the bounds,
\* the samplers and xi are as construction set them, and no step changes
\* them.
C6_ClearKeepsConfiguration ==
    /\ [](last.op = "Clear" => x_samples_ = <<>> /\ y_samples_ = <<>>)
    /\ [](d_ = Len(bounds_) /\ dists_ = GetDistributions(bounds_))
    /\ [][UNCHANGED <<d_, bounds_, dists_, xi_>>]_vars

\* Clear has been called on a session that had proposed from a non-empty
\* store and consumed random draws.
C6_ClearedAfterUse ==
    /\ last.op = "Clear"
    /\ fitted.x # <<>>
    /\ gpr_.fitted
    /\ gen_ # seed0

\* C7: the surrogate is fitted on the rows of the store as it was at the
\* most recent NextSample call, in insertion order, and on nothing before
\* the first call; AddSample and Clear steps leave the surrogate as it is.
C7_SurrogateHoldsFittedStore ==
    /\ [](/\ Len(gpr_.x_train) = Len(fitted.x)
          /\ Len(gpr_.y_train) = Len(fitted.y)
          /\ \A i \in 1..Len(fitted.x) :
                gpr_.x_train[i] = fitted.x[i] /\ gpr_.y_train[i] = fitted.y[i])
    /\ [][/\ last'.op \in {"AddSample", "Clear"} => gpr_' = gpr_
          /\ last'.op = "NextSample" =>
                fitted' = [x |-> x_samples_, y |-> y_samples_]]_vars

\* The store has grown since the surrogate was fitted on a non-empty one.
C7_StaleSurrogate ==
    /\ last.op = "AddSample"
    /\ gpr_.fitted
    /\ fitted.x # <<>>
    /\ Len(x_samples_) > Len(fitted.x)
    /\ Len(gpr_.x_train) = Len(fitted.x)

\* C8: CheckBounds(x) is true exactly when low_i <= x_i <= high_i for every
\* coordinate i.
C8_CheckBoundsInclusive ==
    (pure.fn = "CheckBounds" /\ pure.done) =>
        (pure.out <=>
            \A i \in 1..Len(pure.x) :
                /\ pure.bounds[i].first <= pure.x[i]
                /\ pure.x[i] <= pure.bounds[i].second)

\* CheckBounds has accepted a 2-D point with one coordinate on its low and
\* one on its high endpoint.
C8_EndpointsAccepted ==
    /\ pure.fn = "CheckBounds"
    /\ pure.done
    /\ pure.out
    /\ Len(pure.x) = 2
    /\ pure.bounds[1].first < pure.bounds[1].second
    /\ pure.x[1] = pure.bounds[1].first
    /\ pure.x[2] = pure.bounds[2].second

\* C9: ExpectedImprovement is 0 at every query point whose predictive
\* standard deviation is 0, and imp * cdf(z) + sigma * pdf(z) at the others,
\* with imp = mu - mu_sample_opt - xi and z = imp / sigma.
C9_ZeroWhereSigmaZero ==
    (pure.fn = "ExpectedImprovement" /\ pure.done) =>
        /\ Len(pure.out) = Len(pure.x)
        /\ \A i \in 1..Len(pure.x) :
              \A mu \in {PredictMean(pure.gpr, pure.x[i])},
                 sigma \in {PredictStd(pure.gpr, pure.x[i])},
                 opt \in {maxCoeff(PredictMu(pure.gpr, pure.x_sample), 0)} :
                  \A imp \in {mu - opt - pure.xi} :
                      pure.out[i] =
                          IF sigma = 0 THEN 0
                          ELSE imp * cdf(Quotient(imp, sigma))
                               + sigma * pdf(Quotient(imp, sigma))

\* ExpectedImprovement has been applied to two query points: one of
\* deviation 0 whose mean exceeds the best fitted mean plus xi, one of
\* non-zero deviation and non-zero value.
C9_OverrideApplied ==
    /\ pure.fn = "ExpectedImprovement"
    /\ pure.done
    /\ Len(pure.x) = 2
    /\ PredictStd(pure.gpr, pure.x[1]) = 0
    /\ PredictMean(pure.gpr, pure.x[1])
          > maxCoeff(PredictMu(pure.gpr, pure.x_sample), 0) + pure.xi
    /\ pure.out[1] = 0
    /\ PredictStd(pure.gpr, pure.x[2]) # 0
    /\ pure.out[2] # 0

\* The restarts of the most recent ProposeLocation that ended below the
\* sentinel, and those among them of the lowest final value.
BelowSentinel == {i \in 1..Len(restarts) : restarts[i].fx < DBL_MAX}

Lowest ==
    {i \in BelowSentinel : \A k \in BelowSentinel : restarts[i].fx <= restarts[k].fx}

\* C10: ProposeLocation runs NRestarts restarts, restart i from the point
\* whose coordinate j is the draw of sampler j in the state the random
\* source has after the (i-1)*d + (j-1) draws before it; the running best
\* never increases and a restart that ends on the running best does not
\* replace its point; the result is the final point of the earliest restart
\* of the lowest final value when that is below the sentinel, and the zero
\* vector of length d when no restart ends below the sentinel.
C10_BestOfRestarts ==
    (Returned /\ fitted.x # <<>>) =>
        /\ Len(restarts) = NRestarts
        /\ gen_ = AdvanceBy(last.gen, NRestarts * d_)
        /\ \A i \in 1..Len(restarts) :
              /\ restarts[i].gen = AdvanceBy(last.gen, (i - 1) * d_)
              /\ Len(restarts[i].x0) = d_
              /\ \A j \in 1..d_ :
                    restarts[i].x0[j]
                        = Draw(dists_[j], AdvanceBy(last.gen, (i - 1) * d_ + (j - 1)))
              /\ restarts[i].fx_min
                    <= (IF i = 1 THEN DBL_MAX ELSE restarts[i - 1].fx_min)
              /\ (i > 1 /\ restarts[i].fx = restarts[i - 1].fx_min) =>
                    restarts[i].x_next = restarts[i - 1].x_next
        /\ IF Lowest = {}
           THEN last.val = Zero(d_)
           ELSE last.val
                   = restarts[CHOOSE i \in Lowest : \A k \in Lowest : i <= k].x

\* Two restarts have ended on the lowest final value, below the sentinel,
\* at different points.
C10_TieAtTheBest ==
    /\ Returned
    /\ fitted.x # <<>>
    /\ \E i \in Lowest, k \in Lowest :
          /\ i < k
          /\ restarts[i].x # restarts[k].x
          /\ last.val = restarts[i].x

====
